---- MODULE Spec2Model ----
(***************************************************************************)
(* Model of the resume builder page (src/app/page.tsx): the resume         *)
(* document held in React state, its copy in localStorage, the form        *)
(* editor's handlers, the AI enhancement client and the live preview;      *)
(* and, each exercised on its own, normalizeUrl, downloadPdf and the       *)
(* /api/enhance handler (src/app/layout.tsx).                              *)
(*                                                                         *)
(* JavaScript strings are sequences of one-character strings; objects are  *)
(* functions from key names to values, an absent key being a key outside   *)
(* the DOMAIN; arrays are sequences.                                       *)
(***************************************************************************)
EXTENDS Integers, Sequences, FiniteSets, TLC

VARIABLES
    data,       \* the `data` state of HomePage (the resume document)
    storage,    \* the localStorage item under 'resume_builder_data_v1'
    pc,         \* "effect": the persistence effect of the last render is due
    inflight,   \* pending /api/enhance requests, each with the closure it holds
    sent,       \* number of fetch('/api/enhance') calls issued
    calls,      \* number of enhance calls made with non-blank text
    edits,      \* number of form edits made
    applied,    \* the responses applied to the store, in order of arrival
    escaped,    \* an exception escaped a handler
    ev,         \* the last step taken
    url,        \* a call of normalizeUrl: its argument and its results
    api,        \* a request at /api/enhance: the request, the provider, the answers
    pdf         \* a run of downloadPdf: the preview, the jsPDF document, the file

\* the state of the page
page == <<data, storage, pc, inflight, sent, calls, edits, applied, escaped, ev>>

\* the state of the parts that are exercised on their own
aux == <<url, api, pdf>>

vars == <<data, storage, pc, inflight, sent, calls, edits, applied, escaped, ev,
          url, api, pdf>>

(***************************************************************************)
(* Bounds of the model.                                                    *)
(***************************************************************************)
\* the number of form edits and enhancement requests a behaviour may make
MaxActions == 2

\* the length of the text that follows the scheme of a link
MaxUrlBody == 1

\* the number of anchors in the preview that is exported
MaxAnchors == 2

\* a part that is not exercised in a behaviour
Unused == [pc |-> "unused"]

(***************************************************************************)
(* Strings.                                                                *)
(***************************************************************************)
Str(c) == <<c>>

IsSpace(c) == c = " "

RECURSIVE TrimStart(_)
TrimStart(s) ==
    IF s # <<>> /\ IsSpace(Head(s)) THEN TrimStart(Tail(s)) ELSE s

RECURSIVE TrimEnd(_)
TrimEnd(s) ==
    IF s # <<>> /\ IsSpace(s[Len(s)]) THEN TrimEnd(SubSeq(s, 1, Len(s) - 1)) ELSE s

\* String.prototype.trim
Trim(s) == TrimEnd(TrimStart(s))

\* truthiness of a string value
Truthy(s) == s # <<>>

\* obj.k || ''
Shown(obj, k) == IF k \in DOMAIN obj THEN obj[k] ELSE <<>>

\* obj.k?.trim() used as a condition
TrimTruthy(obj, k) == k \in DOMAIN obj /\ Truthy(Trim(obj[k]))

\* { ...obj, [key]: value }
Spread(obj, key, value) ==
    [k \in DOMAIN obj \cup {key} |-> IF k = key THEN value ELSE obj[k]]

\* arr.filter((_, idx) => idx !== i), i counted from 1
RemoveAt(arr, i) ==
    [j \in 1..(Len(arr) - 1) |-> IF j < i THEN arr[j] ELSE arr[j + 1]]

\* const copy = [...arr]; copy[i] = item
ReplaceAt(arr, i, item) == [arr EXCEPT ![i] = item]

\* s.split(',')
RECURSIVE SplitComma(_)
SplitComma(s) ==
    IF \A i \in 1..Len(s) : s[i] # ","
    THEN <<s>>
    ELSE LET at == CHOOSE i \in 1..Len(s) :
                       s[i] = "," /\ \A j \in 1..(i - 1) : s[j] # ","
         IN  <<SubSeq(s, 1, at - 1)>> \o SplitComma(SubSeq(s, at + 1, Len(s)))

RECURSIVE MapTrim(_)
MapTrim(list) ==
    IF list = <<>> THEN <<>> ELSE <<Trim(Head(list))>> \o MapTrim(Tail(list))

\* s.split(',').map(t => t.trim()).filter(Boolean)
TagParts(s) == SelectSeq(MapTrim(SplitComma(s)), Truthy)

\* Array.from(new Set(list)): the first occurrence of each element, in order
RECURSIVE Dedupe(_)
Dedupe(list) ==
    IF list = <<>> THEN <<>>
    ELSE LET front == Dedupe(SubSeq(list, 1, Len(list) - 1))
             last == list[Len(list)]
         IN  IF \E i \in 1..Len(front) : front[i] = last
             THEN front
             ELSE Append(front, last)

(***************************************************************************)
(* The resume document.                                                    *)
(***************************************************************************)
ListKeys == {"experience", "projects", "certifications", "education"}

ContactKeys == {"fullName", "email", "phone", "linkedin", "github", "website"}

ItemFields(key) ==
    CASE key = "experience" ->
            {"role", "company", "location", "start", "end", "description"}
      [] key = "projects" -> {"name", "tech", "link", "repo", "description"}
      [] key = "certifications" -> {"title", "issuer", "year", "link"}
      [] key = "education" -> {"degree", "school", "start", "end", "score"}

RequiredField(key) ==
    CASE key = "experience" -> "role"
      [] key = "projects" -> "name"
      [] key = "certifications" -> "title"
      [] key = "education" -> "degree"

\* the item the "+ Add" button of a list appends
NewItem(key) == [f \in {RequiredField(key)} |-> <<>>]

EmptySkills == [shape |-> "object", techTools |-> <<>>, softSkills |-> <<>>]

\* the `initial` argument of useLocalStorage<ResumeData>
DefaultData ==
    [contact |-> [fullName |-> <<>>],
     about |-> <<>>,
     experience |-> <<>>,
     projects |-> <<>>,
     certifications |-> <<>>,
     skills |-> EmptySkills,
     education |-> <<>>,
     profileImageDataUrl |-> <<>>,
     certificatesLink |-> <<>>]

\* mutant: a reset literal left behind with the legacy string skills
ResetDataLegacySkills ==
    [contact |-> [fullName |-> <<>>],
     about |-> <<>>,
     experience |-> <<>>,
     projects |-> <<>>,
     certifications |-> <<>>,
     skills |-> [shape |-> "string", text |-> <<>>],
     education |-> <<>>,
     profileImageDataUrl |-> <<>>,
     certificatesLink |-> <<>>]

\* the literal resetAll passes to setData
ResetData ==
    [contact |-> [fullName |-> <<>>],
     about |-> <<>>,
     experience |-> <<>>,
     projects |-> <<>>,
     certifications |-> <<>>,
     skills |-> [shape |-> "object", techTools |-> <<>>, softSkills |-> <<>>],
     education |-> <<>>,
     profileImageDataUrl |-> <<>>,
     certificatesLink |-> <<>>]

(***************************************************************************)
(* localStorage and JSON.                                                  *)
(***************************************************************************)
\* localStorage.getItem returns null for a missing key
NoItem == [kind |-> "null"]

EmptyText == [kind |-> "text", chars |-> "empty"]

GarbageText == [kind |-> "text", chars |-> "notjson"]

\* JSON.stringify(value): the text whose parse is `value`
JSONstringify(value) == [kind |-> "text", chars |-> "json", value |-> value]

\* JSON.parse(raw): throws unless raw is a JSON text
JSONparse(raw) ==
    IF raw.kind = "text" /\ raw.chars = "json"
    THEN [threw |-> FALSE, value |-> raw.value]
    ELSE [threw |-> TRUE]

\* `raw ? ... : ...`: null and '' are falsy
RawTruthy(raw) == raw.kind = "text" /\ raw.chars # "empty"

\* mutant: the initializer without its try/catch
useLocalStorageInitNoCatch(raw, initial) ==
    IF RawTruthy(raw)
    THEN LET parsed == JSONparse(raw)
         IN  IF parsed.threw
             THEN [value |-> initial, raised |-> TRUE]
             ELSE [value |-> parsed.value, raised |-> FALSE]
    ELSE [value |-> initial, raised |-> FALSE]

\* the useState initializer of useLocalStorage, run in the browser
useLocalStorageInit(raw, initial) ==
    IF RawTruthy(raw)
    THEN LET parsed == JSONparse(raw)
         IN  IF parsed.threw
             THEN [value |-> initial, raised |-> FALSE]
             ELSE [value |-> parsed.value, raised |-> FALSE]
    ELSE [value |-> initial, raised |-> FALSE]

\* mutant: an effect that writes only while nothing is stored under the key
useLocalStorageEffectOnce(value, stored, setItemThrows) ==
    IF setItemThrows \/ stored.kind # "null"
    THEN [storage |-> stored, raised |-> FALSE]
    ELSE [storage |-> JSONstringify(value), raised |-> FALSE]

\* the effect of useLocalStorage: try { setItem(key, stringify(value)) } catch {}
useLocalStorageEffect(value, stored, setItemThrows) ==
    IF setItemThrows
    THEN [storage |-> stored, raised |-> FALSE]
    ELSE [storage |-> JSONstringify(value), raised |-> FALSE]

(***************************************************************************)
(* Documents a previous session may have left in localStorage.             *)
(***************************************************************************)
StoredAsha ==
    [DefaultData EXCEPT
        !.contact = [fullName |-> Str("a")],
        !.experience = <<[role |-> Str("a"), company |-> Str("a"),
                          description |-> Str("a")]>>]

StoredLegacy ==
    [DefaultData EXCEPT
        !.education = <<[degree |-> Str("a")], [degree |-> Str(" ")],
                        [degree |-> Str("a"), school |-> Str("a")]>>,
        !.skills = [shape |-> "string", text |-> <<"a", ",", " ", "b">>]]

InitRaws ==
    {NoItem, EmptyText, GarbageText,
     JSONstringify(StoredAsha), JSONstringify(StoredLegacy)}

\* the inputs the user types into: of the contact block and of each list's
\* items, the required field, one optional field and the description
ContactInputs == {"fullName", "email"}

ItemInputs(key) ==
    CASE key = "experience" -> {"role", "company", "description"}
      [] key = "projects" -> {"name", "tech", "description"}
      [] key = "certifications" -> {"title", "issuer"}
      [] key = "education" -> {"degree", "school"}

\* the inputs on whose value the page calls trim()
TrimmedInputs == {"fullName", "about", "role", "name", "title", "degree", "description"}

\* what the user can type into the input of field k: blank or not, and, where
\* the page trims the value, whitespace only
InputTexts(k) ==
    IF k \in TrimmedInputs THEN {<<>>, Str(" "), Str("a")} ELSE {<<>>, Str("a")}

(***************************************************************************)
(* Store updates.                                                          *)
(***************************************************************************)
\* mutant: the new document built on the initial one
updateOntoInitial(closure, key, value) == Spread(DefaultData, key, value)

\* update(key, value) called from a render whose `data` is `closure`
update(closure, key, value) == Spread(closure, key, value)

\* updateContact(key, value)
updateContact(closure, key, value) ==
    update(closure, "contact", Spread(closure.contact, key, value))

\* setData(next), followed by the render that schedules the persistence effect
SetData(next) ==
    /\ data' = next
    /\ pc' = "effect"

Idle == pc = "idle"

\* the model's cap on user actions
WithinBudget == edits + sent < MaxActions

CanEdit == Idle /\ WithinBudget

Init ==
    \E raw \in InitRaws :
        LET loaded == useLocalStorageInit(raw, DefaultData)
        IN  /\ data = loaded.value
            /\ storage = raw
            /\ pc = "effect"
            /\ inflight = {}
            /\ sent = 0
            /\ calls = 0
            /\ edits = 0
            /\ applied = <<>>
            /\ escaped = loaded.raised
            /\ ev = [type |-> "load", raw |-> raw]
            /\ url = Unused /\ api = Unused /\ pdf = Unused

\* useEffect(() => { try { localStorage.setItem(...) } catch {} }, [key, value])
PersistEffectWith(setItemThrows) ==
    /\ pc = "effect"
    /\ LET r == useLocalStorageEffect(data, storage, setItemThrows)
       IN  /\ storage' = r.storage
           /\ escaped' = (escaped \/ r.raised)
    /\ ev' = [type |-> "persist", threw |-> setItemThrows]
    /\ pc' = "idle"
    /\ UNCHANGED <<data, inflight, sent, calls, edits, applied>>
    /\ UNCHANGED aux

PersistEffect == \E setItemThrows \in BOOLEAN : PersistEffectWith(setItemThrows)

(***************************************************************************)
(* The form editor.                                                        *)
(***************************************************************************)
Edited(type) ==
    /\ ev' = [type |-> type]
    /\ edits' = edits + 1
    /\ UNCHANGED <<storage, inflight, sent, calls, applied, escaped>>
    /\ UNCHANGED aux

\* onChange of a contact input
EditContactWith(k, v) ==
    /\ CanEdit
    /\ v # Shown(data.contact, k)
    /\ SetData(updateContact(data, k, v))
    /\ Edited("editContact")

EditContact == \E k \in ContactInputs : \E v \in InputTexts(k) : EditContactWith(k, v)

\* onChange of the About textarea and of the certificates link input
EditTopWith(k, v) ==
    /\ CanEdit
    /\ v # data[k]
    /\ SetData(update(data, k, v))
    /\ Edited("editTop")

EditTop ==
    \E k \in {"about", "certificatesLink"} : \E v \in InputTexts(k) : EditTopWith(k, v)

\* onChange of input f of item i of a list
EditItemWith(key, i, f, v) ==
    /\ CanEdit
    /\ v # Shown(data[key][i], f)
    /\ SetData(update(data, key, ReplaceAt(data[key], i, Spread(data[key][i], f, v))))
    /\ Edited("editItem")

EditItem ==
    \E key \in ListKeys :
        \E i \in 1..Len(data[key]), f \in ItemInputs(key) :
            \E v \in InputTexts(f) : EditItemWith(key, i, f, v)

\* the "+ Add" button of a list
AddItemTo(key) ==
    /\ CanEdit
    /\ SetData(update(data, key, Append(data[key], NewItem(key))))
    /\ Edited("addItem")

AddItem == \E key \in ListKeys : AddItemTo(key)

\* the "Remove" button of item i of a list
RemoveItemAt(key, i) ==
    /\ CanEdit
    /\ SetData(update(data, key, RemoveAt(data[key], i)))
    /\ Edited("removeItem")

RemoveItem == \E key \in ListKeys : \E i \in 1..Len(data[key]) : RemoveItemAt(key, i)

\* the Reset button
resetAll ==
    /\ Idle
    /\ SetData(ResetData)
    /\ ev' = [type |-> "reset"]
    /\ UNCHANGED <<storage, inflight, sent, calls, edits, applied, escaped>>
    /\ UNCHANGED aux

(***************************************************************************)
(* The Skills editor.                                                      *)
(***************************************************************************)
\* what the user can type into a tags input before Enter, comma or blur
TagInputs == {Str("c"), Str(",")}

\* the `tags` prop of the TagsInput of a kind of skills
skillTags(d, kind) ==
    IF kind = "techTools"
    THEN IF d.skills.shape = "string" THEN TagParts(d.skills.text)
         ELSE d.skills.techTools
    ELSE IF d.skills.shape = "string" THEN <<>> ELSE d.skills.softSkills

\* the onChange prop: update('skills', { ...current, [kind]: tags })
skillsOnChange(closure, kind, tags) ==
    LET current == IF closure.skills.shape = "string" THEN EmptySkills
                   ELSE closure.skills
    IN  update(closure, "skills", Spread(current, kind, tags))

\* TagsInput.addTagFromInput
AddTagWith(kind, input) ==
    /\ CanEdit
    /\ TagParts(input) # <<>>
    /\ SetData(skillsOnChange(data, kind,
                              Dedupe(skillTags(data, kind) \o TagParts(input))))
    /\ Edited("addTag")

AddTag == \E kind \in {"techTools", "softSkills"}, input \in TagInputs : AddTagWith(kind, input)

\* the button of tag i of a TagsInput
RemoveTagAt(kind, i) ==
    /\ CanEdit
    /\ SetData(skillsOnChange(data, kind, RemoveAt(skillTags(data, kind), i)))
    /\ Edited("removeTag")

RemoveTag ==
    \E kind \in {"techTools", "softSkills"} :
        \E i \in 1..Len(skillTags(data, kind)) : RemoveTagAt(kind, i)

(***************************************************************************)
(* The live preview.                                                       *)
(***************************************************************************)
\* the `has` memo, each entry with the truthiness the JSX tests it for
has(d) ==
    [contact |-> "fullName" \in DOMAIN d.contact /\ Truthy(Trim(d.contact.fullName)),
     about |-> Truthy(Trim(d.about)),
     experience |-> Len(d.experience) # 0,
     projects |-> Len(d.projects) # 0,
     certifications |-> Len(d.certifications) # 0,
     skills |-> d.skills.shape = "object" \/ d.skills.shape = "string",
     education |-> Len(d.education) # 0,
     img |-> Truthy(d.profileImageDataUrl)]

Sections == {"about", "skills"} \cup ListKeys

\* the text of the <h3 className="section-title"> of a section
SectionTitle(section) ==
    CASE section = "about" -> "About Me"
      [] section = "skills" -> "Skills"
      [] section = "experience" -> "Work Experience"
      [] section = "projects" -> "Projects"
      [] section = "certifications" -> "Certifications"
      [] section = "education" -> "Education"

\* the section headings the preview renders
PreviewHeadings(d) == {SectionTitle(section) : section \in {x \in Sections : has(d)[x]}}

\* whether the preview renders the <h1> with the full name
PreviewName(d) == has(d).contact

\* mutant: the list rendered without the filter on the required field
PreviewItemsUnfiltered(d, key) == IF has(d)[key] THEN d[key] ELSE <<>>

\* the items the preview renders in a list section
PreviewItems(d, key) ==
    IF has(d)[key]
    THEN SelectSeq(d[key], LAMBDA e : TrimTruthy(e, RequiredField(key)))
    ELSE <<>>

\* the badges the preview renders in the Skills section
PreviewBadges(d, kind) == IF has(d).skills THEN skillTags(d, kind) ELSE <<>>

\* the items the form editor renders a block of inputs for
EditorItems(d, key) == d[key]

\* the enhance buttons the editor renders, each with the call its onClick makes
EnhanceButtons(d) ==
    {[target |-> "about", index |-> 0, text |-> d.about]}
    \cup UNION {{[target |-> key, index |-> i,
                   text |-> Shown(d[key][i], "description")] : i \in 1..Len(d[key])} :
                 key \in {"experience", "projects"}}

(***************************************************************************)
(* The enhancement client.                                                 *)
(***************************************************************************)
\* texts the endpoint may return as `enhanced`
Replies == {Str("x"), Str("y")}

Rejected == [fetch |-> "rejects"]

Resolved(status, body) == [fetch |-> "resolves", status |-> status, body |-> body]

JsonBody(value) == [parsable |-> TRUE, value |-> value]

HtmlBody == [parsable |-> FALSE]

\* what a fetch of /api/enhance can end with
Responses ==
    {Rejected}
    \cup {Resolved(200, JsonBody([enhanced |-> t])) : t \in Replies \cup {<<>>}}
    \cup {Resolved(400, JsonBody([error |-> "Text is required"])),
          Resolved(405, JsonBody([error |-> "Method Not Allowed"])),
          Resolved(500, JsonBody([error |-> "Missing GEMINI_API_KEY"])),
          Resolved(500, JsonBody([error |-> "Failed to enhance text"])),
          Resolved(500, HtmlBody)}

\* mutant: the guard without the trim
enhanceReturnsEarlyNoTrim(text) == ~Truthy(text)

\* `if (!text || !text.trim()) return;`
enhanceReturnsEarly(text) == ~Truthy(text) \/ ~Truthy(Trim(text))

\* mutant: `if (json)` in place of `if (json?.enhanced)`
enhanceResultAnyJson(resp) ==
    IF resp.fetch = "rejects"
    THEN [threw |-> TRUE, apply |-> FALSE]
    ELSE IF ~resp.body.parsable
    THEN [threw |-> TRUE, apply |-> FALSE]
    ELSE LET json == resp.body.value
         IN  [threw |-> FALSE, apply |-> TRUE,
              enhanced |-> IF "enhanced" \in DOMAIN json THEN json.enhanced ELSE <<>>]

\* the try block after the fetch: await fetch, await res.json(), json?.enhanced
enhanceResult(resp) ==
    IF resp.fetch = "rejects"
    THEN [threw |-> TRUE, apply |-> FALSE]
    ELSE IF ~resp.body.parsable
    THEN [threw |-> TRUE, apply |-> FALSE]
    ELSE LET json == resp.body.value
         IN  IF "enhanced" \in DOMAIN json /\ Truthy(json.enhanced)
             THEN [threw |-> FALSE, apply |-> TRUE, enhanced |-> json.enhanced]
             ELSE [threw |-> FALSE, apply |-> FALSE]

\* `catch (e) { console.error(e); }`: whether a thrown exception leaves the handler
enhanceCatch(threw) == FALSE

\* the document handleEnhance sets on success, `closure` being the `data` of
\* the render whose button was clicked
handleEnhanceApply(closure, field, enhanced) ==
    IF field = "about" THEN update(closure, "about", enhanced) ELSE closure

\* the document handleEnhanceArray sets on success
handleEnhanceArrayApply(closure, key, index, enhanced) ==
    LET arr == closure[key]
        item == Spread(arr[index], "description", enhanced)
    IN  update(closure, key, ReplaceAt(arr, index, item))

\* the requests still pending once `req` has been issued
pendingAfterCall(pending, req) == pending \cup {req}

\* mutant: a request token, the response of a superseded request is dropped
appliesResponseIfLatest(req, others) ==
    \A o \in others : ~(o.target = req.target /\ o.index = req.index /\ o.id > req.id)

\* whether the response to `req` is applied, given the other pending requests
appliesResponse(req, others) == TRUE

\* the synchronous part of handleEnhance / handleEnhanceArray
EnhanceCall(target, index, text) ==
    /\ Idle
    /\ calls' = IF Trim(text) # <<>> THEN calls + 1 ELSE calls
    /\ IF enhanceReturnsEarly(text)
       THEN /\ UNCHANGED <<inflight, sent>>
            /\ ev' = [type |-> "enhanceNoop", target |-> target]
       ELSE /\ WithinBudget
            /\ inflight' = pendingAfterCall(inflight,
                               [id |-> sent + 1, target |-> target, index |-> index,
                                closure |-> data])
            /\ sent' = sent + 1
            /\ ev' = [type |-> "enhanceSent"]
    /\ UNCHANGED <<data, storage, pc, edits, applied, escaped>>
    /\ UNCHANGED aux

\* the "Enhance with AI" button of About Me
handleEnhance == EnhanceCall("about", 0, data.about)

\* the "Enhance" button of an experience or project item
handleEnhanceArray ==
    \E key \in {"experience", "projects"} :
        \E i \in 1..Len(data[key]) :
            EnhanceCall(key, i, Shown(data[key][i], "description"))

\* the rest of handleEnhance / handleEnhanceArray, run when the fetch settles
SettleWith(req, resp) ==
    /\ Idle
    /\ req \in inflight
    /\ LET res == enhanceResult(resp)
       IN  /\ inflight' = inflight \ {req}
           /\ escaped' = (escaped \/ (res.threw /\ enhanceCatch(res.threw)))
           /\ IF res.apply /\ appliesResponse(req, inflight \ {req})
              THEN /\ SetData(IF req.target = "about"
                              THEN handleEnhanceApply(req.closure, req.target,
                                                      res.enhanced)
                              ELSE handleEnhanceArrayApply(req.closure, req.target,
                                                           req.index, res.enhanced))
                   /\ applied' = Append(applied, [id |-> req.id, target |-> req.target,
                                                  index |-> req.index,
                                                  text |-> res.enhanced])
                   /\ ev' = [type |-> "enhanced"]
              ELSE /\ UNCHANGED <<data, pc, applied>>
                   /\ ev' = [type |-> "enhanceFailed"]
    /\ UNCHANGED <<storage, sent, calls, edits>>
    /\ UNCHANGED aux

EnhanceSettle == \E req \in inflight, resp \in Responses : SettleWith(req, resp)

Next ==
    \/ PersistEffect
    \/ EditContact
    \/ EditTop
    \/ EditItem
    \/ AddItem
    \/ RemoveItem
    \/ AddTag
    \/ RemoveTag
    \/ resetAll
    \/ handleEnhance
    \/ handleEnhanceArray
    \/ EnhanceSettle

Spec == Init /\ [][Next]_vars


(***************************************************************************)
(* The page left alone while another part is exercised.                    *)
(***************************************************************************)
PageAtRest ==
    /\ data = DefaultData
    /\ storage = NoItem
    /\ pc = "idle"
    /\ inflight = {}
    /\ sent = 0
    /\ calls = 0
    /\ edits = 0
    /\ applied = <<>>
    /\ escaped = FALSE
    /\ ev = [type |-> "none"]

(***************************************************************************)
(* normalizeUrl.  An optional string is [defined |-> FALSE] (undefined)    *)
(* or [defined |-> TRUE, str |-> s].                                       *)
(***************************************************************************)
Undefined == [defined |-> FALSE]

Some(s) == [defined |-> TRUE, str |-> s]

\* the letter the `i` flag of a regular expression folds c to
ToLower(c) ==
    CASE c = "H" -> "h"
      [] c = "T" -> "t"
      [] c = "P" -> "p"
      [] c = "S" -> "s"
      [] OTHER -> c

\* s begins with the text p, letter case ignored
StartsWithIgnoreCase(s, p) ==
    /\ Len(s) >= Len(p)
    /\ \A i \in 1..Len(p) : ToLower(s[i]) = ToLower(p[i])

\* s begins with the text p
StartsWith(s, p) == Len(s) >= Len(p) /\ SubSeq(s, 1, Len(p)) = p

HttpScheme == <<"h", "t", "t", "p", ":", "/", "/">>

HttpsScheme == <<"h", "t", "t", "p", "s", ":", "/", "/">>

\* mutant: the test without the `i` flag
SchemeTestCaseSensitive(s) == StartsWith(s, HttpScheme) \/ StartsWith(s, HttpsScheme)

\* /^https?:\/\//i.test(s)
SchemeTest(s) ==
    StartsWithIgnoreCase(s, HttpScheme) \/ StartsWithIgnoreCase(s, HttpsScheme)

normalizeUrl(raw) ==
    IF ~raw.defined \/ raw.str = <<>>
    THEN Undefined
    ELSE LET trimmed == Trim(raw.str)
         IN  IF trimmed = <<>>
             THEN Undefined
             ELSE IF SchemeTest(trimmed)
                  THEN Some(trimmed)
                  ELSE Some(HttpsScheme \o trimmed)

\* what the text of a link field can begin with
UrlHeads ==
    {<<>>, HttpScheme, HttpsScheme,
     <<"H", "T", "T", "P", ":", "/", "/">>,
     <<"H", "t", "t", "p", "S", ":", "/", "/">>,
     <<"h", "t", "t", "p", ":", "/">>,
     <<"h", "t", "t", "p", "s", ":">>,
     <<"f", "t", "p", ":", "/", "/">>}

UrlBodyChars == {"e", " ", "/"}

UrlBodies == UNION {[1..n -> UrlBodyChars] : n \in 0..MaxUrlBody}

UrlPads == {<<>>, <<" ">>}

\* the arguments normalizeUrl is called with
UrlInputs ==
    {Undefined} \cup
    {Some(before \o head \o body \o after) :
        before \in UrlPads, head \in UrlHeads, body \in UrlBodies, after \in UrlPads}

InitUrl ==
    /\ PageAtRest
    /\ url \in {[pc |-> "argument", raw |-> raw] : raw \in UrlInputs}
    /\ api = Unused
    /\ pdf = Unused

\* href={normalizeUrl(raw)}
normalizeUrlCall ==
    /\ url.pc = "argument"
    /\ url' = [pc |-> "normalized", raw |-> url.raw, out |-> normalizeUrl(url.raw)]
    /\ UNCHANGED <<page, api, pdf>>

\* normalizeUrl applied to a value it returned
normalizeUrlAgain ==
    /\ url.pc = "normalized"
    /\ url' = [pc |-> "renormalized", raw |-> url.raw, out |-> url.out,
               again |-> normalizeUrl(url.out)]
    /\ UNCHANGED <<page, api, pdf>>

NextUrl == normalizeUrlCall \/ normalizeUrlAgain

SpecUrl == InitUrl /\ [][NextUrl]_vars

(***************************************************************************)
(* The enhancement endpoint (the API handler of src/app/layout.tsx).       *)
(* A request is [method, key, body]: key says whether GEMINI_API_KEY is    *)
(* set; the parsed body is null or an object whose `text` and `field` may  *)
(* be absent.  The texts of error bodies are TLA+ strings.                 *)
(***************************************************************************)
NullBody == [kind |-> "null"]

ObjectBody(obj) == [kind |-> "object", obj |-> obj]

ApiMethods == {"GET", "POST", "PUT"}

ApiTexts == {<<>>, Str(" "), Str("a"), <<" ", "a", " ">>}

ApiFields == {Str("f")}

\* the request bodies the body parser can hand to the handler
ApiBodies ==
    {NullBody} \cup
    {ObjectBody(obj) :
        obj \in UNION {{o \in [keys -> ApiTexts \cup ApiFields] :
                           /\ "text" \in keys => o.text \in ApiTexts
                           /\ "field" \in keys => o.field \in ApiFields} :
                       keys \in SUBSET {"text", "field"}}}

ApiRequests ==
    {[method |-> m, key |-> k, body |-> b] :
        m \in ApiMethods, k \in BOOLEAN, b \in ApiBodies}

\* what generateContent / response.text() can do: return a text or throw
ProviderOutcomes ==
    {[ok |-> TRUE, text |-> o] : o \in {Str("x"), <<" ", "x", " ">>, <<>>}} \cup
    {[ok |-> FALSE, message |-> m] : m \in {"network", "echo of the prompt"}}

\* res.status(status).json(body), with the headers set before
Respond(status, headers, body) == [status |-> status, headers |-> headers, body |-> body]

\* mutant: only GET is turned away
methodNotAllowedGetOnly(req) == req.method = "GET"

\* req.method !== 'POST'
methodNotAllowed(req) == req.method # "POST"

\* mutant: the credential is not looked at
keyMissingIgnored(req) == FALSE

\* !key
keyMissing(req) == ~req.key

\* const { text, field } = req.body: throws a TypeError on null
Destructure(body) ==
    IF body.kind = "null"
    THEN [threw |-> TRUE]
    ELSE [threw |-> FALSE,
          text |-> IF "text" \in DOMAIN body.obj THEN Some(body.obj.text) ELSE Undefined,
          field |-> IF "field" \in DOMAIN body.obj THEN Some(body.obj.field) ELSE Undefined]

\* !text || !text.trim()
textRequired(text) == ~text.defined \/ text.str = <<>> \/ Trim(text.str) = <<>>

\* the prompt: the template with ${field ?? 'content'} and ${text} filled in
promptOf(field, text) ==
    [field |-> IF field.defined THEN field.str ELSE <<"content">>, text |-> text.str]

\* mutant: the body of the catch branch built from the error
failureBodyFromError(outcome) == [error |-> outcome.message]

\* catch (e) { ... json({ error: 'Failed to enhance text' }) }
failureBody(outcome) == [error |-> "Failed to enhance text"]

\* mutant: the provider's text passed on as it came
enhancedUntrimmed(o) == o

\* response.text().trim()
enhancedOf(o) == Trim(o)

\* the handler up to `await model.generateContent(prompt)`
handlerUntilAwait(req) ==
    IF methodNotAllowed(req)
    THEN [responded |-> TRUE,
          response |-> Respond(405, {<<"Allow", "POST">>},
                               [error |-> "Method Not Allowed"])]
    ELSE IF keyMissing(req)
    THEN [responded |-> TRUE,
          response |-> Respond(500, {}, [error |-> "Missing GEMINI_API_KEY"])]
    ELSE LET parts == Destructure(req.body)
         IN  IF parts.threw
             THEN [responded |-> TRUE,
                   response |-> Respond(500, {},
                                    failureBody([ok |-> FALSE, message |-> "TypeError"]))]
             ELSE IF textRequired(parts.text)
             THEN [responded |-> TRUE,
                   response |-> Respond(400, {}, [error |-> "Text is required"])]
             ELSE [responded |-> FALSE, prompt |-> promptOf(parts.field, parts.text)]

\* the handler after the await
handlerAfterAwait(outcome) ==
    IF outcome.ok
    THEN Respond(200, {}, [enhanced |-> enhancedOf(outcome.text)])
    ELSE Respond(500, {}, failureBody(outcome))

InitApi ==
    /\ PageAtRest
    /\ url = Unused
    /\ api \in {[pc |-> "received", req |-> req, prompts |-> <<>>, responses |-> <<>>] :
                   req \in ApiRequests}
    /\ pdf = Unused

\* handler(req, res), run until it answers or awaits the provider
handlerReceive ==
    /\ api.pc = "received"
    /\ LET r == handlerUntilAwait(api.req)
       IN  IF r.responded
           THEN api' = [api EXCEPT !.pc = "responded",
                                   !.responses = Append(@, r.response)]
           ELSE api' = [api EXCEPT !.pc = "awaiting",
                                   !.prompts = Append(@, r.prompt)]
    /\ UNCHANGED <<page, url, pdf>>

\* the provider call settles and the handler answers
providerSettlesWith(outcome) ==
    /\ api.pc = "awaiting"
    /\ api' = [pc |-> "responded", req |-> api.req, prompts |-> api.prompts,
               responses |-> Append(api.responses, handlerAfterAwait(outcome)),
               outcome |-> outcome]
    /\ UNCHANGED <<page, url, pdf>>

providerSettles == \E outcome \in ProviderOutcomes : providerSettlesWith(outcome)

NextApi == handlerReceive \/ providerSettles

SpecApi == InitApi /\ [][NextApi]_vars

(***************************************************************************)
(* downloadPdf.  Lengths are exact rationals [n, d] with d > 0, in         *)
(* lowest terms; the rounding of floating point is left out.               *)
(***************************************************************************)
RECURSIVE GCD(_, _)
GCD(a, b) == IF b = 0 THEN a ELSE GCD(b, a % b)

Q(n, d) == LET g == GCD(IF n < 0 THEN -n ELSE n, d) IN [n |-> n \div g, d |-> d \div g]

QInt(i) == Q(i, 1)

QAdd(a, b) == Q(a.n * b.d + b.n * a.d, a.d * b.d)

QSub(a, b) == Q(a.n * b.d - b.n * a.d, a.d * b.d)

QMul(a, b) == Q(a.n * b.n, a.d * b.d)

\* a / b for b > 0
QDiv(a, b) == Q(a.n * b.d, a.d * b.n)

QLe(a, b) == a.n * b.d <= b.n * a.d

\* Math.min(a, b)
QMin(a, b) == IF QLe(a, b) THEN a ELSE b

\* html2canvas(element, { scale: 2, ... })
RasterScale == 2

\* new jsPDF('p', 'mm', 'a4'): the page is 210 mm by 297 mm
PageWidthMm == 210

PageHeightMm == 297

\* the size in pixels of the preview element
PreviewSizes == {[W |-> 100, H |-> 100], [W |-> 100, H |-> 200]}

\* where the preview element lies in the viewport
ContainerOrigins == {[left |-> 0, top |-> 0], [left |-> 8, top |-> 16]}

\* the anchors of the preview that `a[href]` selects: href and the box
\* relative to the preview element
AnchorChoices ==
    {[href |-> h, relX |-> b.relX, relY |-> b.relY, width |-> 30, height |-> 5] :
        h \in {"mailto:a", "https://e"},
        b \in {[relX |-> 0, relY |-> 20], [relX |-> 10, relY |-> 40]}}

AnchorLists == UNION {[1..n -> AnchorChoices] : n \in 0..MaxAnchors}

\* a.getBoundingClientRect() of an anchor, in viewport coordinates
AnchorRect(a, container) ==
    [left |-> container.left + a.relX, top |-> container.top + a.relY,
     width |-> a.width, height |-> a.height]

\* html2canvas: the bitmap of an element of W by H pixels
html2canvas(size) == [width |-> size.W * RasterScale, height |-> size.H * RasterScale]

\* ratio, imgW, imgH, x, y: where pdf.addImage draws the bitmap
imagePlacement(canvas) ==
    LET pageWidth == QInt(PageWidthMm)
        pageHeight == QInt(PageHeightMm)
        wRatio == QDiv(pageWidth, QInt(canvas.width))
        hRatio == QDiv(pageHeight, QInt(canvas.height))
        ratio == QMin(wRatio, hRatio)
        imgW == QMul(QInt(canvas.width), ratio)
        imgH == QMul(QInt(canvas.height), ratio)
    IN  [x |-> QDiv(QSub(pageWidth, imgW), QInt(2)),
         y |-> QDiv(QSub(pageHeight, imgH), QInt(2)),
         imgW |-> imgW, imgH |-> imgH]

\* const mmPerPx = imgW / canvas.width
mmPerPxOf(place, canvas) == QDiv(place.imgW, QInt(canvas.width))

\* the arguments of pdf.link for one anchor
linkRegion(href, r, containerRect, place, mmPerPx) ==
    LET relX == r.left - containerRect.left
        relY == r.top - containerRect.top
    IN  [x |-> QAdd(place.x, QMul(QInt(relX), mmPerPx)),
         y |-> QAdd(place.y, QMul(QInt(relY), mmPerPx)),
         w |-> QMul(QInt(r.width), mmPerPx),
         h |-> QMul(QInt(r.height), mmPerPx),
         url |-> href]

\* mutant: pdf.link called outside a try block
linkThrowEscapes(threw) == threw

\* try { pdf.link(...) } catch {}: whether a throw of pdf.link leaves forEach
linkThrowLeaves(threw) == FALSE

\* anchors.forEach(...) from anchor i on: the calls of pdf.link made, the
\* regions the document got, and whether an exception ended the loop
RECURSIVE forEachAnchor(_, _, _, _, _, _)
forEachAnchor(anchors, i, throws, containerRect, place, mmPerPx) ==
    IF i > Len(anchors)
    THEN [attempted |-> <<>>, registered |-> <<>>, aborted |-> FALSE]
    ELSE LET a == anchors[i]
             region == linkRegion(a.href, AnchorRect(a, containerRect), containerRect,
                                  place, mmPerPx)
             rest == forEachAnchor(anchors, i + 1, throws, containerRect, place, mmPerPx)
         IN  IF a.href = ""
             THEN rest
             ELSE IF throws[i] /\ linkThrowLeaves(throws[i])
             THEN [attempted |-> <<region>>, registered |-> <<>>, aborted |-> TRUE]
             ELSE [attempted |-> <<region>> \o rest.attempted,
                   registered |-> (IF throws[i] THEN <<>> ELSE <<region>>)
                                      \o rest.registered,
                   aborted |-> rest.aborted]

InitPdf ==
    /\ PageAtRest
    /\ url = Unused
    /\ api = Unused
    /\ pdf \in {[pc |-> "clicked", mounted |-> m, size |-> size, container |-> c,
                 anchors |-> anchors, rasterized |-> 0, saved |-> <<>>] :
                   m \in BOOLEAN, size \in PreviewSizes, c \in ContainerOrigins,
                   anchors \in AnchorLists}

\* downloadPdf up to `await html2canvas(...)`
downloadPdf ==
    /\ pdf.pc = "clicked"
    /\ IF ~pdf.mounted
       THEN pdf' = [pdf EXCEPT !.pc = "returned"]
       ELSE pdf' = [pdf EXCEPT !.pc = "rasterizing", !.rasterized = @ + 1]
    /\ UNCHANGED <<page, url, api>>

\* downloadPdf after the await: addImage, the link overlays, save
downloadPdfResumeWith(throws) ==
    /\ pdf.pc = "rasterizing"
    /\ LET canvas == html2canvas(pdf.size)
           place == imagePlacement(canvas)
           links == forEachAnchor(pdf.anchors, 1, throws, pdf.container, place,
                                  mmPerPxOf(place, canvas))
       IN  pdf' = [pc |-> IF links.aborted THEN "threw" ELSE "done",
                   mounted |-> pdf.mounted, size |-> pdf.size,
                   container |-> pdf.container, anchors |-> pdf.anchors,
                   rasterized |-> pdf.rasterized,
                   canvas |-> canvas, image |-> place, throws |-> throws,
                   attempted |-> links.attempted, registered |-> links.registered,
                   saved |-> IF links.aborted THEN pdf.saved
                             ELSE Append(pdf.saved, "resume.pdf")]
    /\ UNCHANGED <<page, url, api>>

downloadPdfResume ==
    \E throws \in [1..Len(pdf.anchors) -> BOOLEAN] : downloadPdfResumeWith(throws)

NextPdf == downloadPdf \/ downloadPdfResume

SpecPdf == InitPdf /\ [][NextPdf]_vars

(***************************************************************************)
(* Properties.                                                             *)
(***************************************************************************)
\* a response that carries a non-empty `enhanced` text
Successful(resp) ==
    /\ resp.fetch = "resolves"
    /\ resp.body.parsable
    /\ "enhanced" \in DOMAIN resp.body.value
    /\ resp.body.value.enhanced # <<>>

\* a request that failed: the fetch rejected, the status is not a success, the
\* body is not JSON, or the body has no `enhanced` value
Failed(resp) ==
    \/ resp.fetch = "rejects"
    \/ resp.status \notin 200..299
    \/ ~resp.body.parsable
    \/ "enhanced" \notin DOMAIN resp.body.value
    \/ resp.body.value.enhanced = <<>>

\* the text of the field an enhancement request is about
FieldText(d, target, index) ==
    IF target = "about" THEN d.about ELSE Shown(d[target][index], "description")

\* field f is the same, present or absent, in items a and b
SameField(a, b, f) ==
    /\ f \in DOMAIN a <=> f \in DOMAIN b
    /\ f \in DOMAIN a => a[f] = b[f]

\* C1: when the response to an enhancement request arrives with a non-empty
\* text t, the store holds t in the enhanced field afterwards, and every other
\* field of the enhanced item keeps the value the store held just before the
\* response was applied, edits made while the request was pending included.
C1_EnhanceTouchesOnlyItsField ==
    [][\A req \in inflight, resp \in Responses :
          (SettleWith(req, resp) /\ Successful(resp)) =>
              /\ FieldText(data', req.target, req.index) = resp.body.value.enhanced
              /\ (req.target \in ListKeys /\ req.index <= Len(data[req.target])) =>
                    \A f \in ItemFields(req.target) \ {"description"} :
                        SameField(data'[req.target][req.index],
                                  data[req.target][req.index], f)]_vars

\* C2: a failed enhancement request leaves the resume document as it was just
\* before the request settled, and no exception escapes the handler.
C2_FailureLeavesStore ==
    [][\A req \in inflight, resp \in Responses :
          (SettleWith(req, resp) /\ Failed(resp)) => (data' = data /\ ~escaped')]_vars

C2_Witness == ev.type = "enhanceFailed" /\ edits > 0 /\ ~escaped

\* C3: an enhance call with empty or whitespace-only text issues no request and
\* leaves the store unchanged; the number of requests sent is always the
\* number of enhance calls made with non-blank text.
C3_BlankIsNoop ==
    [][/\ \A c \in EnhanceButtons(data) :
              (EnhanceCall(c.target, c.index, c.text) /\ Trim(c.text) = <<>>) =>
                  (sent' = sent /\ inflight' = inflight /\ data' = data)
       /\ sent' = calls']_vars

C3_Witness ==
    /\ ev.type = "enhanceNoop"
    /\ ev.target = "about"
    /\ data.about = Str(" ")
    /\ sent = 0

\* C4: a second enhancement request on a field leaves the first one pending,
\* every successful response is applied when it arrives, whatever else is
\* pending, and so the field holds the text of the response that arrived last.
C4_LastArrivalWins ==
    [][/\ \A c \in EnhanceButtons(data) :
              (EnhanceCall(c.target, c.index, c.text) /\ Trim(c.text) # <<>>) =>
                  (inflight \subseteq inflight'
                   /\ Cardinality(inflight') = Cardinality(inflight) + 1)
       /\ \A req \in inflight, resp \in Responses :
              (SettleWith(req, resp) /\ Successful(resp)) =>
                  /\ FieldText(data', req.target, req.index) = resp.body.value.enhanced
                  /\ inflight' = inflight \ {req}
                  /\ applied' # <<>>
                  /\ applied'[Len(applied')].id = req.id]_vars

\* both responses applied, the one requested last having arrived first
C4_Witness ==
    /\ ev.type = "enhanced"
    /\ Len(applied) = 2
    /\ applied[1].id > applied[2].id
    /\ applied[1].target = applied[2].target
    /\ applied[1].index = applied[2].index
    /\ applied[1].text # applied[2].text
    /\ FieldText(data, applied[2].target, applied[2].index) = applied[2].text

\* C5: when the persistence effect has run without a storage error, the item
\* stored under the key is the serialization of the whole current document; a
\* write that throws leaves the document in memory unchanged; nothing is raised.
C5_PersistsWholeDocument ==
    [][\A setItemThrows \in BOOLEAN :
          PersistEffectWith(setItemThrows) =>
              /\ data' = data
              /\ ~escaped'
              /\ ~setItemThrows =>
                    (storage' = JSONstringify(data') /\ JSONparse(storage').value = data')]_vars

\* saved after an enhancement result
C5_Witness ==
    /\ ev.type = "persist"
    /\ ~ev.threw
    /\ applied # <<>>
    /\ storage = JSONstringify(data)

\* the key holds data that can be parsed
HoldsParsable(raw) == raw.kind = "text" /\ raw.chars = "json"

\* C6: on initial load the state is the deserialized stored value when the key
\* holds parsable data and the hard-coded defaults when the key is missing,
\* empty or unparsable; loading raises nothing.
C6_LoadFallsBackToDefaults ==
    ev.type = "load" =>
        /\ ~escaped
        /\ HoldsParsable(ev.raw) => data = ev.raw.value
        /\ ~HoldsParsable(ev.raw) => data = DefaultData

C6_Witness == ev.type = "load" /\ ev.raw = GarbageText /\ data = DefaultData

\* C7: right after resetAll the store holds the default document, which is the
\* document a first load with empty storage starts with.
C7_ResetRestoresDefaults ==
    ev.type = "reset" =>
        /\ data = [contact |-> [fullName |-> <<>>],
                   about |-> <<>>,
                   experience |-> <<>>,
                   projects |-> <<>>,
                   certifications |-> <<>>,
                   education |-> <<>>,
                   skills |-> [shape |-> "object", techTools |-> <<>>,
                               softSkills |-> <<>>],
                   profileImageDataUrl |-> <<>>,
                   certificatesLink |-> <<>>]
        /\ data = useLocalStorageInit(NoItem, DefaultData).value

\* a reset of a document that was not the default one
C7_Witness ==
    /\ ev.type = "reset"
    /\ HoldsParsable(storage)
    /\ storage.value # DefaultData
    /\ data = DefaultData

\* the required field of an item is non-empty after trimming
RequiredFilled(item, key) ==
    RequiredField(key) \in DOMAIN item /\ Trim(item[RequiredField(key)]) # <<>>

ValidIndexes(d, key) == {i \in 1..Len(d[key]) : RequiredFilled(d[key][i], key)}

\* C8: the preview renders the heading of a list section exactly when one of
\* the list's items has a required field that is non-empty after trimming.
C8_HeadingIffValidItem ==
    \A key \in ListKeys :
        SectionTitle(key) \in PreviewHeadings(data) <=> ValidIndexes(data, key) # {}

\* only the full name and one experience item with a role are filled in
OnlyNameAndOneRole(d) ==
    /\ Trim(d.contact.fullName) # <<>>
    /\ \A k \in DOMAIN d.contact \ {"fullName"} : d.contact[k] = <<>>
    /\ Len(d.experience) = 1
    /\ RequiredFilled(d.experience[1], "experience")
    /\ d.about = <<>>
    /\ d.projects = <<>> /\ d.certifications = <<>> /\ d.education = <<>>
    /\ d.skills = EmptySkills
    /\ d.profileImageDataUrl = <<>> /\ d.certificatesLink = <<>>

\* a section has nothing to show
SectionEmpty(d, section) ==
    CASE section = "about" -> Trim(d.about) = <<>>
      [] section = "skills" ->
            skillTags(d, "techTools") = <<>> /\ skillTags(d, "softSkills") = <<>>
      [] OTHER -> ValidIndexes(d, section) = {}

\* C9: with only the full name and one experience item with a role filled in,
\* the preview shows the name and Work Experience and no other section
\* heading; in general the preview hides every section whose content is empty.
C9_HidesEmptySections ==
    /\ OnlyNameAndOneRole(data) =>
          /\ PreviewName(data)
          /\ PreviewHeadings(data) = {"Work Experience"}
    /\ \A section \in Sections :
          SectionEmpty(data, section) => SectionTitle(section) \notin PreviewHeadings(data)

\* the j-th index of a list whose item has its required field filled in
NthValid(d, key, j) ==
    CHOOSE i \in ValidIndexes(d, key) :
        Cardinality({k \in ValidIndexes(d, key) : k <= i}) = j

\* C10: the items a preview list section renders are the store's items whose
\* required field is non-empty after trimming, in store order; the store and
\* the form editor keep every item, the blank ones included.
C10_PreviewFiltersInOrder ==
    \A key \in ListKeys :
        LET rendered == PreviewItems(data, key)
        IN  /\ Len(rendered) = Cardinality(ValidIndexes(data, key))
            /\ \A j \in 1..Len(rendered) : rendered[j] = data[key][NthValid(data, key, j)]
            /\ Len(EditorItems(data, key)) = Len(data[key])
            /\ \A i \in 1..Len(data[key]) : EditorItems(data, key)[i] = data[key][i]

\* a blank item between two different valid ones: two rendered, three kept
C10_Witness ==
    \E key \in ListKeys :
        /\ Len(data[key]) = 3
        /\ ValidIndexes(data, key) = {1, 3}
        /\ data[key][1] # data[key][3]
        /\ PreviewItems(data, key) = <<data[key][1], data[key][3]>>
        /\ Len(EditorItems(data, key)) = 3

\* a text that, letter case aside, begins with http:// or https://
HasWebScheme(s) ==
    \E n \in {7, 8} :
        /\ Len(s) >= n
        /\ s[1] \in {"h", "H"} /\ s[2] \in {"t", "T"}
        /\ s[3] \in {"t", "T"} /\ s[4] \in {"p", "P"}
        /\ n = 8 => s[5] \in {"s", "S"}
        /\ s[n - 2] = ":" /\ s[n - 1] = "/" /\ s[n] = "/"

\* C11: normalizeUrl maps undefined, empty and whitespace-only input to no
\* link, a trimmed input that begins with http:// or https:// in any letter
\* case to the trimmed input, and every other input to "https://" followed by
\* the trimmed input; applied to its own result it returns that result.
C11_NormalizeUrl ==
    url.pc \in {"normalized", "renormalized"} =>
        /\ (~url.raw.defined \/ Trim(url.raw.str) = <<>>) => ~url.out.defined
        /\ (url.raw.defined /\ Trim(url.raw.str) # <<>>) =>
              /\ url.out.defined
              /\ HasWebScheme(Trim(url.raw.str)) => url.out.str = Trim(url.raw.str)
              /\ ~HasWebScheme(Trim(url.raw.str)) =>
                    url.out.str = <<"h", "t", "t", "p", "s", ":", "/", "/">>
                                      \o Trim(url.raw.str)
        /\ url.pc = "renormalized" => url.again = url.out

\* a padded upper-case scheme kept as typed, and kept when normalized again
C11_Witness ==
    /\ url.pc = "renormalized"
    /\ url.raw = Some(<<" ", "H", "T", "T", "P", ":", "/", "/", "e">>)
    /\ url.out = Some(<<"H", "T", "T", "P", ":", "/", "/", "e">>)
    /\ url.again = url.out

\* the request carries no text, or a text that is blank after trimming
TextMissingOrBlank(req) ==
    \/ req.body.kind = "null"
    \/ "text" \notin DOMAIN req.body.obj
    \/ Trim(req.body.obj.text) = <<>>

\* the handler has run for the request
Handled == api.pc \in {"awaiting", "responded"}

\* the one answer given so far is this one
AnsweredOnlyWith(status, body) ==
    /\ api.pc = "responded"
    /\ Len(api.responses) = 1
    /\ api.responses[1].status = status
    /\ api.responses[1].body = body

\* C12: a POST request received while no credential is configured is answered
\* with 500 {error: "Missing GEMINI_API_KEY"} whatever its body is, and the
\* provider is not called.
C12_MissingKeyIs500 ==
    (Handled /\ api.req.method = "POST" /\ ~api.req.key) =>
        /\ AnsweredOnlyWith(500, [error |-> "Missing GEMINI_API_KEY"])
        /\ api.prompts = <<>>

\* no credential and a blank text
C12_Witness ==
    /\ api.pc = "responded"
    /\ api.req = [method |-> "POST", key |-> FALSE,
                  body |-> ObjectBody([text |-> Str(" ")])]
    /\ api.responses[1].status = 500

\* C13: a POST request (the credential being configured) whose text is
\* missing or blank after trimming is answered with 400
\* {error: "Text is required"}, and the provider is not called.
C13_BlankTextIs400 ==
    (Handled /\ api.req.method = "POST" /\ api.req.key /\ TextMissingOrBlank(api.req)) =>
        /\ AnsweredOnlyWith(400, [error |-> "Text is required"])
        /\ api.prompts = <<>>

\* C14: a request whose method is not POST is answered with 405 and the
\* header Allow: POST, whatever the credential and the body are, and the
\* provider is not called.
C14_NonPostIs405 ==
    (Handled /\ api.req.method # "POST") =>
        /\ api.pc = "responded"
        /\ Len(api.responses) = 1
        /\ api.responses[1].status = 405
        /\ <<"Allow", "POST">> \in api.responses[1].headers
        /\ api.prompts = <<>>

\* a PUT that would otherwise be valid
C14_Witness ==
    /\ api.pc = "responded"
    /\ api.req = [method |-> "PUT", key |-> TRUE,
                  body |-> ObjectBody([text |-> Str("a")])]
    /\ api.responses[1].status = 405

\* a POST with the credential configured and a non-blank text
ValidRequest(req) ==
    /\ req.method = "POST"
    /\ req.key
    /\ ~TextMissingOrBlank(req)

\* C15: for a valid request to which the provider returns o, the provider is
\* called once and the answer is 200 {enhanced: trim(o)}; no request gets more
\* than one answer, a request that was handled to the end has one, and every
\* status is 200, 400, 405 or 500.
C15_ValidRequestIs200 ==
    /\ (api.pc = "responded" /\ ValidRequest(api.req)) =>
          /\ Len(api.prompts) = 1
          /\ api.outcome.ok =>
                /\ Len(api.responses) = 1
                /\ api.responses[1] =
                       [status |-> 200, headers |-> {},
                        body |-> [enhanced |-> Trim(api.outcome.text)]]
    /\ api.pc # "unused" =>
          /\ Len(api.responses) = (IF api.pc = "responded" THEN 1 ELSE 0)
          /\ Len(api.prompts) <= 1
          /\ \A i \in 1..Len(api.responses) :
                api.responses[i].status \in {200, 400, 405, 500}

\* a provider output with blanks around it
C15_Witness ==
    /\ api.pc = "responded"
    /\ ValidRequest(api.req)
    /\ api.outcome = [ok |-> TRUE, text |-> <<" ", "x", " ">>]
    /\ api.responses = <<[status |-> 200, headers |-> {},
                          body |-> [enhanced |-> Str("x")]]>>

\* C16: when the provider call fails for a valid request the answer is 500
\* with the fixed body {error: "Failed to enhance text"}: the same body for
\* every failure, holding neither the text nor the field name.
C16_ProviderFailureIs500 ==
    (api.pc = "responded" /\ ValidRequest(api.req) /\ ~api.outcome.ok) =>
        /\ AnsweredOnlyWith(500, [error |-> "Failed to enhance text"])
        /\ DOMAIN api.responses[1].body = {"error"}

\* a failure whose message repeats the prompt
C16_Witness ==
    /\ api.pc = "responded"
    /\ api.req = [method |-> "POST", key |-> TRUE,
                  body |-> ObjectBody([text |-> Str("a"), field |-> Str("f")])]
    /\ api.outcome = [ok |-> FALSE, message |-> "echo of the prompt"]
    /\ api.responses[1].status = 500

\* C17: with the preview mounted, downloadPdf tries to register a link region
\* for every anchor with an href, a failure on one anchor not keeping the
\* later ones from being tried, and saves resume.pdf once, after the anchors;
\* with the preview absent nothing is rasterized or saved.
C17_ExportSkipsFailedLinks ==
    pdf.pc # "unused" =>
        /\ pdf.pc \in {"clicked", "rasterizing", "returned", "done"}
        /\ ~pdf.mounted => (pdf.rasterized = 0 /\ pdf.saved = <<>> /\ pdf.pc # "done")
        /\ pdf.pc = "returned" => ~pdf.mounted
        /\ pdf.pc \in {"clicked", "rasterizing"} => pdf.saved = <<>>
        /\ pdf.pc = "done" =>
              /\ pdf.rasterized = 1
              /\ pdf.saved = <<"resume.pdf">>
              /\ Len(pdf.attempted) = Len(pdf.anchors)
              /\ \A i \in 1..Len(pdf.anchors) :
                    /\ pdf.attempted[i].url = pdf.anchors[i].href
                    /\ ~pdf.throws[i] =>
                          \E j \in 1..Len(pdf.registered) :
                              pdf.registered[j] = pdf.attempted[i]
              /\ Len(pdf.registered) = Cardinality({i \in 1..Len(pdf.anchors) : ~pdf.throws[i]})

\* the first of two anchors fails, the second is registered, the file is saved
C17_Witness ==
    /\ pdf.pc = "done"
    /\ Len(pdf.anchors) = 2
    /\ pdf.anchors[1].href # pdf.anchors[2].href
    /\ pdf.throws = <<TRUE, FALSE>>
    /\ Len(pdf.registered) = 1
    /\ pdf.registered[1].url = pdf.anchors[2].href
    /\ pdf.saved = <<"resume.pdf">>

\* C20: the region registered for an anchor lies where the anchor is drawn in
\* the image: for a preview of W by H pixels drawn at (x, y) with size
\* (imgW, imgH), an anchor at (relX, relY) of size (w, h) gets the region with
\* origin (x + relX*imgW/W, y + relY*imgH/H) and size (w*imgW/W, h*imgH/H).
C20_LinkRegionsMatchImage ==
    pdf.pc = "done" =>
        \A i \in 1..Len(pdf.attempted) :
            LET a == pdf.anchors[i]
                W == QInt(pdf.size.W)
                H == QInt(pdf.size.H)
                img == pdf.image
                region == pdf.attempted[i]
            IN  /\ region.x = QAdd(img.x, QDiv(QMul(QInt(a.relX), img.imgW), W))
                /\ region.y = QAdd(img.y, QDiv(QMul(QInt(a.relY), img.imgH), H))
                /\ region.w = QDiv(QMul(QInt(a.width), img.imgW), W)
                /\ region.h = QDiv(QMul(QInt(a.height), img.imgH), H)

\* the step keeps every top-level key of the document other than `key`
OtherKeysKept(key) ==
    /\ DOMAIN data' = DOMAIN data
    /\ \A other \in DOMAIN data \ {key} : data'[other] = data[other]

\* C18: with no enhancement request pending, update(key, value) changes only
\* that top-level key of the document, and updateContact(k, v) changes only
\* field k of contact: the other contact fields and the other top-level keys
\* are as before.
C18_UpdateChangesOneKey ==
    [][inflight = {} =>
          /\ \A k \in {"about", "certificatesLink"} : \A v \in InputTexts(k) :
                EditTopWith(k, v) => (OtherKeysKept(k) /\ data'[k] = v)
          /\ \A key \in ListKeys :
                /\ AddItemTo(key) => OtherKeysKept(key)
                /\ \A i \in 1..Len(data[key]) :
                      /\ RemoveItemAt(key, i) => OtherKeysKept(key)
                      /\ \A f \in ItemInputs(key) : \A v \in InputTexts(f) :
                            EditItemWith(key, i, f, v) => OtherKeysKept(key)
          /\ \A kind \in {"techTools", "softSkills"} :
                /\ \A input \in TagInputs :
                      AddTagWith(kind, input) => OtherKeysKept("skills")
                /\ \A i \in 1..Len(skillTags(data, kind)) :
                      RemoveTagAt(kind, i) => OtherKeysKept("skills")
          /\ \A k \in ContactInputs : \A v \in InputTexts(k) :
                EditContactWith(k, v) =>
                    /\ OtherKeysKept("contact")
                    /\ data'.contact[k] = v
                    /\ DOMAIN data'.contact = DOMAIN data.contact \cup {k}
                    /\ \A other \in DOMAIN data.contact \ {k} :
                          data'.contact[other] = data.contact[other]]_vars

\* the e-mail typed into a document that has a name and an experience item
C18_Witness ==
    /\ ev.type = "editContact"
    /\ inflight = {}
    /\ sent = 0
    /\ data.contact = [fullName |-> Str("a"), email |-> Str("a")]
    /\ data.experience # <<>>

\* C19: an edit or reset committed while an enhancement request is pending is
\* not undone when the response is applied: every top-level key other than
\* the enhanced one, and every list item other than the enhanced one, keeps
\* the value it had just before the response was applied.
C19_PendingEditsSurvive ==
    [][\A req \in inflight, resp \in Responses :
          (SettleWith(req, resp) /\ Successful(resp)) =>
              /\ OtherKeysKept(req.target)
              /\ req.target \in ListKeys =>
                    /\ Len(data'[req.target]) = Len(data[req.target])
                    /\ \A i \in 1..Len(data[req.target]) \ {req.index} :
                          data'[req.target][i] = data[req.target][i]]_vars

\* the stored skills value has the legacy comma-separated string shape
LegacySkills(d) == d.skills.shape = "string"

\* list `old` is the beginning of list `new`
Prefix(old, new) == Len(old) <= Len(new) /\ SubSeq(new, 1, Len(old)) = old

\* C21: with skills stored as the legacy comma-separated string, the tech
\* tools read from it are its trimmed non-empty parts in order; adding or
\* removing a soft-skill tag converts skills to the mapping shape and leaves
\* that tech-tools list as it was; adding a tech tag keeps every tech tool
\* read from the string.
C21_LegacySkillsKept ==
    [][LegacySkills(data) =>
          /\ data.skills.text = <<"a", ",", " ", "b">> =>
                skillTags(data, "techTools") = <<Str("a"), Str("b")>>
          /\ \A t \in 1..Len(skillTags(data, "techTools")) :
                LET tag == skillTags(data, "techTools")[t]
                IN  tag # <<>> /\ Trim(tag) = tag
          /\ \A input \in TagInputs :
                /\ AddTagWith("softSkills", input) =>
                      /\ data'.skills.shape = "object"
                      /\ data'.skills.techTools = skillTags(data, "techTools")
                /\ AddTagWith("techTools", input) =>
                      /\ data'.skills.shape = "object"
                      /\ Prefix(skillTags(data, "techTools"), data'.skills.techTools)
          /\ \A i \in 1..Len(skillTags(data, "softSkills")) :
                RemoveTagAt("softSkills", i) =>
                    /\ data'.skills.shape = "object"
                    /\ data'.skills.techTools = skillTags(data, "techTools")]_vars

====
